---------------------------- MODULE Spec2Model ----------------------------
(***************************************************************************)
(* A model of kasa-internal (src/internal/kasa/kasa.go): the autokey      *)
(* codec (encrypt, decrypt), the mapping parser (processMapping), the     *)
(* per-plug command path (sendCmd, systemInfo, turnOn, turnOff, toggle),  *)
(* the start-up query pass (getSystemInfo) and the key loop of main.      *)
(*                                                                         *)
(* Four specifications share the variables:                               *)
(*   SpecCodec  encrypt and decrypt applied to bounded byte sequences;    *)
(*   SpecParse  processMapping applied to every string over a small       *)
(*              alphabet;                                                  *)
(*   Spec       the program as main runs it, on one goroutine;            *)
(*   SpecConc   the plug methods called from several goroutines.          *)
(* Strings are sequences of one-character strings and bytes are 0..255.   *)
(* Times are in milliseconds and kept relative to the present: 0 is now,  *)
(* -250 is 250 ms ago, 500 is in 500 ms. Tick lets TickMs pass by moving  *)
(* every kept time back; a time more than Horizon ago is kept as -Horizon,*)
(* which every test of the program treats like any older time.            *)
(***************************************************************************)
EXTENDS Integers, Sequences, FiniteSets, TLC

VARIABLES
    plain,      \* codec: the argument of encrypt
    cipher,     \* codec: the value encrypt returned
    decoded,    \* codec: the value decrypt returned
    cpc,        \* codec: "start", "encrypted", "decrypted"
    inputs,     \* codec: two byte sequences handed to decrypt
    outputs,    \* codec: what decrypt returned for each of them
    mapping,    \* os.Args[1], the argument of processMapping
    parsed,     \* what processMapping did: "none", "ok" with the plugs, or "panic"
    plugs,      \* the plugs, in list order: the fields of struct plug, mtx included
    thr,        \* goroutine -> the plug method it runs and where it is in it
    mainpc,     \* where main is: "parse", "init", "poll", "dispatch", "done", "panicked"
    idx,        \* the index of the range loop main is in (getSystemInfo's or the key loop's)
    event,      \* the event term.PollEvent returned last
    nevents,    \* how many events were polled
    queryLog,   \* history: the systemInfo calls of getSystemInfo, in order
    toggled,    \* history: the plugs toggle was called on for the current event, in order
    initReturn, \* what getSystemInfo handed back to main: "pending", then "void"
    firstErr,   \* history: the event and the plug of the first toggle that returned an
                \* error to the key loop
    wire,       \* history: per plug, when conn.Write was last called and how long after
                \* the call before it
    ncalls      \* how many method calls the goroutines of SpecConc have made

codecVars == <<plain, cipher, decoded, cpc, inputs, outputs>>
parseVars == <<mapping, parsed>>
mainVars == <<mainpc, idx, event, nevents, queryLog, toggled, initReturn, firstErr>>
sysVars == <<plugs, thr, mainpc, idx, event, nevents, queryLog, toggled, initReturn,
             firstErr, wire, ncalls>>
vars == <<plain, cipher, decoded, cpc, inputs, outputs, mapping, parsed, plugs, thr,
          mainpc, idx, event, nevents, queryLog, toggled, initReturn, firstErr, wire, ncalls>>

----------------------------------------------------------------------------
(* Bounds of the model *)

\* longest enumerated plaintext
MaxLen == 3
\* a long plaintext has 256 + k bytes, k in 0..MaxLongExtra
MaxLongExtra == 2
\* longest mapping string processMapping is applied to under SpecParse
MaxMapLen == 7
\* the clock advances TickMs at a time
TickMs == 250
\* events main polls under Spec
MaxEvents == 2
\* goroutines calling plug methods under SpecConc, and the calls they make in all
NumCallers == 2
MaxCalls == 2

----------------------------------------------------------------------------
(* Bytes and the codec *)

\* the first key of the autokey cipher
InitialKey == 171

RECURSIVE Xor(_, _)
\* Go's ^ on non-negative ints
Xor(a, b) ==
    IF a = 0 /\ b = 0 THEN 0
    ELSE (((a % 2) + (b % 2)) % 2) + 2 * Xor(a \div 2, b \div 2)

\* a conversion to byte keeps the low 8 bits
Byte(x) == x % 256

\* a faulty variant of PutUint32: the length written low byte first
PutUint32LittleEndian(n) ==
    << n % 256, (n \div 256) % 256, (n \div 65536) % 256, (n \div 16777216) % 256 >>

\* binary.BigEndian.PutUint32(res, uint32(n)) on a 4-byte slice. A length of the
\* model is below 2^31, so uint32(n) is n.
PutUint32(n) ==
    << (n \div 16777216) % 256, (n \div 65536) % 256, (n \div 256) % 256, n % 256 >>

\* one iteration of encrypt's loop: b := key ^ int(bx[i]); key = b; append byte(b)
encryptStep(st, x) ==
    LET b == Xor(st.key, x)
    IN  [key |-> b, res |-> Append(st.res, Byte(b))]

RECURSIVE encryptLoop(_, _, _, _)
\* the iterations lo..hi of encrypt's loop, in order, from the loop state st (the
\* range is halved only to keep the evaluation shallow)
encryptLoop(bx, lo, hi, st) ==
    IF lo > hi THEN st
    ELSE IF lo = hi THEN encryptStep(st, bx[lo])
    ELSE LET mid == (lo + hi) \div 2
             left == encryptLoop(bx, lo, mid, st)
         IN  \* Len(left.res) >= 0 always: it makes TLC evaluate left first
             IF Len(left.res) >= 0 THEN encryptLoop(bx, mid + 1, hi, left) ELSE st

encrypt(bx) ==
    encryptLoop(bx, 1, Len(bx), [key |-> InitialKey, res |-> PutUint32(Len(bx))]).res

\* a faulty variant of decryptStep: the next key is the plaintext byte just produced
decryptStepKeyFromPlain(st, x) ==
    LET b == Xor(st.key, x)
    IN  [key |-> b, res |-> Append(st.res, Byte(b))]

\* one iteration of decrypt's loop: b := key ^ int(bx[i]); key = int(bx[i])
decryptStep(st, x) ==
    LET b == Xor(st.key, x)
    IN  [key |-> x, res |-> Append(st.res, Byte(b))]

RECURSIVE decryptLoop(_, _, _, _)
\* the iterations lo..hi of decrypt's loop (1-based: Go's i is lo - 1)
decryptLoop(bx, lo, hi, st) ==
    IF lo > hi THEN st
    ELSE IF lo = hi THEN decryptStep(st, bx[lo])
    ELSE LET mid == (lo + hi) \div 2
             left == decryptLoop(bx, lo, mid, st)
         IN  \* Len(left.res) >= 0 always: it makes TLC evaluate left first
             IF Len(left.res) >= 0 THEN decryptLoop(bx, mid + 1, hi, left) ELSE st

\* a faulty variant of decrypt: the loop starts one byte early, in the prefix
decryptFromFourth(bx) ==
    decryptLoop(bx, 4, Len(bx), [key |-> InitialKey, res |-> << >>]).res

\* the loop starts at Go's index 4, the fifth byte
decrypt(bx) ==
    decryptLoop(bx, 5, Len(bx), [key |-> InitialKey, res |-> << >>]).res

----------------------------------------------------------------------------
(* SpecCodec: the codec on bounded inputs *)

ByteSample == {0, 1, 84, 123, 171, 255}

SeqsUpTo(S, n) == UNION {[1..k -> S] : k \in 0..n}

\* plaintexts long enough for the second byte of the length prefix to count
LongPlains == {[i \in 1..(256 + k) |-> b] : k \in 0..MaxLongExtra, b \in {0, 123}}

Plaintexts == SeqsUpTo(ByteSample, MaxLen) \cup LongPlains

\* no event polled yet
NoEvent == [Type |-> "none", Key |-> 0]

\* no toggle has returned an error
NoErr == [event |-> 0, dev |-> 0]

\* the variables of the program, in the specifications that run no program
SysUnused ==
    /\ plugs = << >>
    /\ thr = << >>
    /\ mainpc = "unused"
    /\ idx = 0
    /\ event = NoEvent
    /\ nevents = 0
    /\ queryLog = << >>
    /\ toggled = << >>
    /\ initReturn = "pending"
    /\ firstErr = NoErr
    /\ wire = << >>
    /\ ncalls = 0

InitCodec ==
    /\ plain \in Plaintexts
    /\ cipher = << >>
    /\ decoded = << >>
    /\ cpc = "start"
    /\ inputs = << >>
    /\ outputs = << >>
    /\ mapping = << >>
    /\ parsed = [status |-> "none"]
    /\ SysUnused

DoEncrypt ==
    /\ cpc = "start"
    /\ cipher' = encrypt(plain)
    /\ cpc' = "encrypted"
    /\ UNCHANGED <<plain, decoded, inputs, outputs, parseVars, sysVars>>

DoDecrypt ==
    /\ cpc = "encrypted"
    /\ decoded' = decrypt(cipher)
    /\ cpc' = "decrypted"
    /\ UNCHANGED <<plain, cipher, inputs, outputs, parseVars, sysVars>>

NextCodec == DoEncrypt \/ DoDecrypt

SpecCodec == InitCodec /\ [][NextCodec]_vars

----------------------------------------------------------------------------
(* SpecDecrypt: decrypt on pairs of inputs that agree after the first four bytes *)

\* the bytes before decrypt's first index
PrefixLen == 4

PrefixSample == {0, 255}

TailSample == {0, 84, 255}

Prefixes == [1..PrefixLen -> PrefixSample]

\* two inputs with any two prefixes and one tail, or two inputs shorter than a prefix
DecryptPairs ==
    {<<h1 \o tl, h2 \o tl>> : h1 \in Prefixes, h2 \in Prefixes, tl \in SeqsUpTo(TailSample, MaxLen)}
    \cup {<<s1, s2>> : s1 \in SeqsUpTo(TailSample, PrefixLen - 1),
                       s2 \in SeqsUpTo(PrefixSample, PrefixLen - 1)}

InitDecrypt ==
    /\ inputs \in DecryptPairs
    /\ outputs = << >>
    /\ plain = << >>
    /\ cipher = << >>
    /\ decoded = << >>
    /\ cpc = "start"
    /\ mapping = << >>
    /\ parsed = [status |-> "none"]
    /\ SysUnused

DoDecryptPair ==
    /\ cpc = "start"
    /\ outputs' = <<decrypt(inputs[1]), decrypt(inputs[2])>>
    /\ cpc' = "decrypted"
    /\ UNCHANGED <<plain, cipher, decoded, inputs, parseVars, sysVars>>

NextDecrypt == DoDecryptPair

SpecDecrypt == InitDecrypt /\ [][NextDecrypt]_vars

----------------------------------------------------------------------------
(* Strings, strings.Split and strconv.Atoi *)

Digits == <<"0", "1", "2", "3", "4", "5", "6", "7", "8", "9">>

IsDigit(c) == \E d \in 1..10 : Digits[d] = c

\* ch - '0' for a digit ch
DigitVal(c) == (CHOOSE d \in 1..10 : Digits[d] = c) - 1

RECURSIVE SplitLoop(_, _, _, _, _)
SplitLoop(s, sep, i, cur, out) ==
    IF i > Len(s) THEN Append(out, cur)
    ELSE IF s[i] = sep THEN SplitLoop(s, sep, i + 1, << >>, Append(out, cur))
    ELSE SplitLoop(s, sep, i + 1, Append(cur, s[i]), out)

\* strings.Split(s, sep) for a one-character sep: k separators give k + 1 pieces,
\* empty pieces included
Split(s, sep) == SplitLoop(s, sep, 1, << >>, << >>)

RECURSIVE AtoiDigits(_, _, _)
\* n = n*10 + int(ch) over the digits; a character that is no digit is a syntax error
AtoiDigits(s, i, n) ==
    IF i > Len(s) THEN [ok |-> TRUE, val |-> n]
    ELSE IF ~IsDigit(s[i]) THEN [ok |-> FALSE, val |-> 0]
    ELSE AtoiDigits(s, i + 1, n * 10 + DigitVal(s[i]))

\* strconv.Atoi on a string short enough not to overflow int: an optional sign,
\* then at least one digit
Atoi(s) ==
    IF Len(s) = 0 THEN [ok |-> FALSE, val |-> 0]
    ELSE LET signed == s[1] \in {"-", "+"}
             body   == IF signed THEN Tail(s) ELSE s
             r      == AtoiDigits(body, 1, 0)
         IN  IF Len(body) < 1 \/ ~r.ok THEN [ok |-> FALSE, val |-> 0]
             ELSE [ok |-> TRUE, val |-> IF s[1] = "-" THEN 0 - r.val ELSE r.val]

----------------------------------------------------------------------------
(* processMapping *)

\* time.Millisecond*500, the threshold of the guard and the length of its sleep
RateLimitMs == 500
SleepMs == 500

\* a past time is kept exactly up to Horizon ago: the program only tests whether a
\* time is less than RateLimitMs ago
Horizon == RateLimitMs

\* the zero time.Time, the lastCmd of a plug no command was sent to: further in the
\* past than any Duration reaches
ZeroTime == -2147483647

\* time.Now()
Now == 0

\* time.Since(t); of the zero time it is the largest Duration
Since(t) == Now - t

\* no conn.Write to the plug yet
NoWrite == [last |-> ZeroTime, gap |-> Since(ZeroTime)]

\* a faulty variant of NewPlug: the address and the key taken from the wrong places
NewPlugSwapped(IPKeyPair, triggerKey) ==
    [IPAddress |-> IPKeyPair[2], TriggerKey |-> triggerKey, Model |-> "", Name |-> "",
     mtx |-> 0, On |-> FALSE, lastCmd |-> ZeroTime]

\* &plug{IPAddress: IPKeyPair[0], TriggerKey: triggerKey, mtx: &sync.Mutex{}}: the
\* other fields are zero values. mtx is 0 when unlocked, else the goroutine holding it
NewPlug(IPKeyPair, triggerKey) ==
    [IPAddress |-> IPKeyPair[1], TriggerKey |-> triggerKey, Model |-> "", Name |-> "",
     mtx |-> 0, On |-> FALSE, lastCmd |-> ZeroTime]

RECURSIVE processMappingLoop(_, _, _)
\* the loop over mappingSlice: IPKeyPair[1] panics when the entry has no ':', and
\* an Atoi error is a panic
processMappingLoop(mappingSlice, i, list) ==
    IF i > Len(mappingSlice) THEN [status |-> "ok", plugs |-> list]
    ELSE LET IPKeyPair == Split(mappingSlice[i], ":")
         IN  IF Len(IPKeyPair) < 2 THEN [status |-> "panic", why |-> "index out of range"]
             ELSE LET a == Atoi(IPKeyPair[2])
                  IN  IF ~a.ok THEN [status |-> "panic", why |-> "atoi"]
                      ELSE processMappingLoop(mappingSlice, i + 1,
                                              Append(list, NewPlug(IPKeyPair, a.val)))

processMapping(m) == processMappingLoop(Split(m, ","), 1, << >>)

----------------------------------------------------------------------------
(* SpecParse: processMapping on every string over a small alphabet *)

Alphabet == {"a", "1", "2", ":", ",", "-"}

InitParse ==
    /\ \E n \in 0..MaxMapLen : mapping \in [1..n -> Alphabet]
    /\ parsed = [status |-> "none"]
    /\ plain = << >>
    /\ cipher = << >>
    /\ decoded = << >>
    /\ cpc = "unused"
    /\ inputs = << >>
    /\ outputs = << >>
    /\ plugs = << >>
    /\ thr = << >>
    /\ mainpc = "parse"
    /\ idx = 0
    /\ event = NoEvent
    /\ nevents = 0
    /\ queryLog = << >>
    /\ toggled = << >>
    /\ initReturn = "pending"
    /\ firstErr = NoErr
    /\ wire = << >>
    /\ ncalls = 0

\* plugs := processMapping(mapping): a panic ends the program, otherwise main goes on
\* to getSystemInfo(plugs...)
ProcessMapping ==
    /\ mainpc = "parse"
    /\ parsed' = processMapping(mapping)
    /\ plugs' = IF parsed'.status = "ok" THEN parsed'.plugs ELSE << >>
    /\ wire' = [d \in 1..Len(plugs') |-> NoWrite]
    /\ mainpc' = IF parsed'.status = "ok" THEN "init" ELSE "panicked"
    /\ idx' = 1
    /\ UNCHANGED <<mapping, codecVars, thr, event, nevents, queryLog, toggled,
                   initReturn, firstErr, ncalls>>

NextParse == ProcessMapping

SpecParse == InitParse /\ [][NextParse]_vars

----------------------------------------------------------------------------
(* The plug methods: sendCmd, systemInfo, turnOn, turnOff, toggle.          *)
(* A goroutine t runs one method at a time; thr[t].pc is where it is.       *)
(* The network decides whether dial, SetDeadline, Write and Read succeed.   *)
(* The bytes written are encrypt(payload) and the bytes read go through     *)
(* decrypt; the codec is checked under SpecCodec and here a payload stands  *)
(* for its bytes.                                                           *)

SysInfoPayload == "{\"system\":{\"get_sysinfo\":{}}}"
TurnOnPayload == "{\"system\":{\"set_relay_state\":{\"state\":1}}}"
TurnOffPayload == "{\"system\":{\"set_relay_state\":{\"state\":0}}}"

NoResp == [kind |-> "none", Alias |-> "", Model |-> "", RelayState |-> 0]

\* what conn.Read and decrypt can hand to the caller of sendCmd: to get_sysinfo,
\* bytes that are no JSON or a get_sysinfo envelope; to set_relay_state, a reply no
\* caller looks at
Responses(payload) ==
    IF payload = SysInfoPayload
    THEN {[kind |-> "garbage", Alias |-> "", Model |-> "", RelayState |-> 0]} \cup
         {[kind |-> "json", Alias |-> "lamp", Model |-> "HS105", RelayState |-> r] : r \in {0, 1}}
    ELSE {[kind |-> "json", Alias |-> "", Model |-> "", RelayState |-> 0]}

\* net is history: the network calls the current invocation of sendCmd has made, in
\* order, each with whether it returned without error
IdleThread ==
    [op |-> "none", dev |-> 0, pc |-> "idle", payload |-> "", readOn |-> FALSE,
     onAtCall |-> FALSE, err |-> "nil", conn |-> "none", wake |-> 0, resp |-> NoResp,
     net |-> << >>]

\* the history of thread th after the network call op
Did(th, op, ok) == Append(th.net, [op |-> op, ok |-> ok])

\* the call of method op on plug d: systemInfo, turnOn and turnOff go straight to
\* sendCmd with their payload, toggle first reads p.On
StartCall(op, d) ==
    [IdleThread EXCEPT
        !.op = op, !.dev = d, !.onAtCall = IF op = "toggle" THEN plugs[d].On ELSE FALSE,
        !.pc = IF op = "toggle" THEN "toggle" ELSE "lock",
        !.payload = IF op = "systemInfo" THEN SysInfoPayload
                    ELSE IF op = "turnOn" THEN TurnOnPayload
                    ELSE IF op = "turnOff" THEN TurnOffPayload ELSE ""]

int2bool(r) == r = 1

\* toggle: if p.On { err = p.turnOff() ... } else err = p.turnOn()
toggle_Begin(t) ==
    /\ thr[t].pc = "toggle"
    /\ thr' = [thr EXCEPT ![t].readOn = plugs[thr[t].dev].On,
                          ![t].payload = IF plugs[thr[t].dev].On THEN TurnOffPayload
                                         ELSE TurnOnPayload,
                          ![t].pc = "lock"]
    /\ UNCHANGED <<codecVars, parseVars, plugs, mainVars, wire, ncalls>>

\* a faulty variant of MutexFree: Lock never waits
MutexFreeAlways(d) == TRUE

\* the guard of sendCmd_Lock
MutexFree(d) == plugs[d].mtx = 0

\* sendCmd: p.mtx.Lock()
sendCmd_Lock(t) ==
    /\ thr[t].pc = "lock"
    /\ MutexFree(thr[t].dev)
    /\ plugs' = [plugs EXCEPT ![thr[t].dev].mtx = t]
    /\ thr' = [thr EXCEPT ![t].pc = "check"]
    /\ UNCHANGED <<codecVars, parseVars, mainVars, wire, ncalls>>

\* a faulty variant of TooSoon: the guard never sleeps
TooSoonNever(d) == FALSE

\* the test of the guard: time.Since(p.lastCmd) < time.Millisecond*500
TooSoon(d) == Since(plugs[d].lastCmd) < RateLimitMs

\* sendCmd: if time.Since(p.lastCmd) < 500ms { time.Sleep(500ms) }
sendCmd_Guard(t) ==
    /\ thr[t].pc = "check"
    /\ thr' = IF TooSoon(thr[t].dev)
              THEN [thr EXCEPT ![t].pc = "sleep", ![t].wake = Now + SleepMs]
              ELSE [thr EXCEPT ![t].pc = "dial"]
    /\ UNCHANGED <<codecVars, parseVars, plugs, mainVars, wire, ncalls>>

\* time.Sleep returns once the duration has passed
sendCmd_Wake(t) ==
    /\ thr[t].pc = "sleep"
    /\ Now >= thr[t].wake
    /\ thr' = [thr EXCEPT ![t].pc = "dial"]
    /\ UNCHANGED <<codecVars, parseVars, plugs, mainVars, wire, ncalls>>

\* a faulty variant of sendCmd_Dial: the return after a failed dial skips the deferred
\* unlock
sendCmd_DialNoUnlock(t) ==
    /\ thr[t].pc = "dial"
    /\ \E ok \in BOOLEAN :
          thr' = IF ok THEN [thr EXCEPT ![t].conn = "open", ![t].pc = "deadline",
                                        ![t].net = Did(thr[t], "dial", TRUE)]
                 ELSE [thr EXCEPT ![t].err = "dial", ![t].pc = "sent",
                                  ![t].net = Did(thr[t], "dial", FALSE)]
    /\ UNCHANGED <<codecVars, parseVars, plugs, mainVars, wire, ncalls>>

\* sendCmd: net.Dial; on an error it returns with only the unlock deferred
sendCmd_Dial(t) ==
    /\ thr[t].pc = "dial"
    /\ \E ok \in BOOLEAN :
          thr' = IF ok THEN [thr EXCEPT ![t].conn = "open", ![t].pc = "deadline",
                                        ![t].net = Did(thr[t], "dial", TRUE)]
                 ELSE [thr EXCEPT ![t].err = "dial", ![t].pc = "unlock",
                                  ![t].net = Did(thr[t], "dial", FALSE)]
    /\ UNCHANGED <<codecVars, parseVars, plugs, mainVars, wire, ncalls>>

\* sendCmd: conn.SetDeadline
sendCmd_SetDeadline(t) ==
    /\ thr[t].pc = "deadline"
    /\ \E ok \in BOOLEAN :
          thr' = IF ok THEN [thr EXCEPT ![t].pc = "write"]
                 ELSE [thr EXCEPT ![t].err = "deadline", ![t].pc = "close"]
    /\ UNCHANGED <<codecVars, parseVars, plugs, mainVars, wire, ncalls>>

\* a faulty variant of sendCmd_Write: a write that failed is made again
sendCmd_WriteRetry(t) ==
    /\ thr[t].pc = "write"
    /\ \E ok \in BOOLEAN :
          thr' = IF ok THEN [thr EXCEPT ![t].pc = "read",
                                        ![t].net = Did(thr[t], "write", TRUE)]
                 ELSE [thr EXCEPT ![t].pc = IF Len(thr[t].net) < 2 THEN "write" ELSE "close",
                                  ![t].err = IF Len(thr[t].net) < 2 THEN "nil" ELSE "write",
                                  ![t].net = Did(thr[t], "write", FALSE)]
    /\ wire' = [wire EXCEPT ![thr[t].dev] =
                    [last |-> Now, gap |-> Since(@.last)]]
    /\ UNCHANGED <<codecVars, parseVars, plugs, mainVars, ncalls>>

\* sendCmd: conn.Write(encrypt([]byte(data)))
sendCmd_Write(t) ==
    /\ thr[t].pc = "write"
    /\ \E ok \in BOOLEAN :
          thr' = IF ok THEN [thr EXCEPT ![t].pc = "read",
                                        ![t].net = Did(thr[t], "write", TRUE)]
                 ELSE [thr EXCEPT ![t].err = "write", ![t].pc = "close",
                                  ![t].net = Did(thr[t], "write", FALSE)]
    /\ wire' = [wire EXCEPT ![thr[t].dev] =
                    [last |-> Now, gap |-> Since(@.last)]]
    /\ UNCHANGED <<codecVars, parseVars, plugs, mainVars, ncalls>>

\* sendCmd: conn.Read(res) and decrypt(res[:i])
sendCmd_Read(t) ==
    /\ thr[t].pc = "read"
    /\ \/ thr' = [thr EXCEPT ![t].err = "read", ![t].pc = "close",
                              ![t].net = Did(thr[t], "read", FALSE)]
       \/ \E r \in Responses(thr[t].payload) :
             thr' = [thr EXCEPT ![t].resp = r, ![t].pc = "close",
                                ![t].net = Did(thr[t], "read", TRUE)]
    /\ UNCHANGED <<codecVars, parseVars, plugs, mainVars, wire, ncalls>>

\* a faulty variant of sendCmd_Close: the connection is left as it is
sendCmd_CloseLeak(t) ==
    /\ thr[t].pc = "close"
    /\ thr' = [thr EXCEPT ![t].pc = "unlock"]
    /\ UNCHANGED <<codecVars, parseVars, plugs, mainVars, wire, ncalls>>

\* sendCmd, on return: the deferred conn.Close()
sendCmd_Close(t) ==
    /\ thr[t].pc = "close"
    /\ thr' = [thr EXCEPT ![t].conn = "closed", ![t].pc = "unlock"]
    /\ UNCHANGED <<codecVars, parseVars, plugs, mainVars, wire, ncalls>>

\* a faulty variant of Released: the unlock without the time stamp
ReleasedNoStamp(p) == [p EXCEPT !.mtx = 0]

\* what the deferred function of sendCmd does to the plug
Released(p) == [p EXCEPT !.lastCmd = Now, !.mtx = 0]

\* sendCmd, on return: the deferred p.lastCmd = time.Now(); p.mtx.Unlock()
sendCmd_Unlock(t) ==
    /\ thr[t].pc = "unlock"
    /\ plugs' = [plugs EXCEPT ![thr[t].dev] = Released(@)]
    /\ thr' = [thr EXCEPT ![t].pc = "sent"]
    /\ UNCHANGED <<codecVars, parseVars, mainVars, wire, ncalls>>

\* systemInfo after sendCmd: an error is returned as it is, otherwise
\* json.Unmarshal(results, &info) decides
systemInfo_Return(t) ==
    /\ thr[t].pc = "sent"
    /\ thr[t].op = "systemInfo"
    /\ thr' = IF thr[t].err = "nil" /\ thr[t].resp.kind # "json"
              THEN [thr EXCEPT ![t].err = "json", ![t].pc = "ret"]
              ELSE [thr EXCEPT ![t].pc = "ret"]
    /\ UNCHANGED <<codecVars, parseVars, plugs, mainVars, wire, ncalls>>

\* turnOn and turnOff after sendCmd: they return its error and touch no field
turn_Return(t) ==
    /\ thr[t].pc = "sent"
    /\ thr[t].op \in {"turnOn", "turnOff"}
    /\ thr' = [thr EXCEPT ![t].pc = "ret"]
    /\ UNCHANGED <<codecVars, parseVars, plugs, mainVars, wire, ncalls>>

\* a faulty variant of ToggledOn: the flip only after a command without error
ToggledOnIfSent(readOn, err) == IF err = "nil" THEN ~readOn ELSE readOn

\* the value toggle stores in p.On: false after turnOff, true after turnOn, whatever
\* err is
ToggledOn(readOn, err) == IF readOn THEN FALSE ELSE TRUE

\* toggle after turnOff or turnOn returned: p.On = false, or p.On = true
toggle_Return(t) ==
    /\ thr[t].pc = "sent"
    /\ thr[t].op = "toggle"
    /\ plugs' = [plugs EXCEPT ![thr[t].dev].On = ToggledOn(thr[t].readOn, thr[t].err)]
    /\ thr' = [thr EXCEPT ![t].pc = "ret"]
    /\ UNCHANGED <<codecVars, parseVars, mainVars, wire, ncalls>>

\* the steps of sendCmd, for goroutine t
sendCmd(t) ==
    \/ sendCmd_Lock(t)
    \/ sendCmd_Guard(t)
    \/ sendCmd_Wake(t)
    \/ sendCmd_Dial(t)
    \/ sendCmd_SetDeadline(t)
    \/ sendCmd_Write(t)
    \/ sendCmd_Read(t)
    \/ sendCmd_Close(t)
    \/ sendCmd_Unlock(t)

\* the steps of systemInfo
systemInfo(t) == sendCmd(t) \/ systemInfo_Return(t)

\* the steps of toggle
toggle(t) == toggle_Begin(t) \/ toggle_Return(t)

\* a past time, TickMs later
Aged(t) ==
    IF t = ZeroTime THEN ZeroTime
    ELSE IF t - TickMs < 0 - Horizon THEN 0 - Horizon ELSE t - TickMs

\* the end of a sleep, TickMs later
Nearer(w) == IF w > TickMs THEN w - TickMs ELSE 0

\* TickMs pass
Tick ==
    /\ plugs' = [d \in DOMAIN plugs |-> [plugs[d] EXCEPT !.lastCmd = Aged(@)]]
    /\ wire' = [d \in DOMAIN wire |-> [wire[d] EXCEPT !.last = Aged(@)]]
    /\ thr' = [t \in DOMAIN thr |-> [thr[t] EXCEPT !.wake = Nearer(@)]]
    /\ UNCHANGED <<codecVars, parseVars, mainVars, ncalls>>

----------------------------------------------------------------------------
(* Spec: main, on its one goroutine *)

\* the goroutine of main
Main == 1

\* term.KeyCtrlC
KeyCtrlC == 3

\* term.Key is a uint16: the conversion term.Key(plug.TriggerKey) keeps the low 16 bits
KeyModulus == 65536

TermKey(n) == n % KeyModulus

\* the events term.PollEvent returns: key events and events of another type
Events ==
    {[Type |-> "EventResize", Key |-> 0]} \cup
    {[Type |-> "EventKey", Key |-> k] : k \in {1, 2, KeyCtrlC}}

\* "a:2,b:65538,c:2", "a:3" (the key of Ctrl-C) and a mapping with a key that is no
\* integer
MainMappings ==
    { <<"a", ":", "2", ",", "b", ":", "6", "5", "5", "3", "8", ",", "c", ":", "2">>,
      <<"a", ":", "3">>,
      <<"a", ":", "x">> }

Init ==
    /\ mapping \in MainMappings
    /\ parsed = [status |-> "none"]
    /\ plain = << >>
    /\ cipher = << >>
    /\ decoded = << >>
    /\ cpc = "unused"
    /\ inputs = << >>
    /\ outputs = << >>
    /\ plugs = << >>
    /\ thr = [t \in {Main} |-> IdleThread]
    /\ mainpc = "parse"
    /\ idx = 0
    /\ event = NoEvent
    /\ nevents = 0
    /\ queryLog = << >>
    /\ toggled = << >>
    /\ initReturn = "pending"
    /\ firstErr = NoErr
    /\ wire = << >>
    /\ ncalls = 0

\* getSystemInfo: info, err := plug.systemInfo() for the next plug of the range
getSystemInfo_Call ==
    /\ mainpc = "init"
    /\ idx <= Len(plugs)
    /\ thr[Main].pc = "idle"
    /\ thr' = [thr EXCEPT ![Main] = StartCall("systemInfo", idx)]
    /\ queryLog' = Append(queryLog, [dev |-> idx, done |-> FALSE, ok |-> FALSE, info |-> NoResp])
    /\ UNCHANGED <<codecVars, parseVars, plugs, mainpc, idx, event, nevents, toggled,
                   initReturn, firstErr, wire, ncalls>>

\* what getSystemInfo stores in the plug after a query without error
Populated(p, info) ==
    [p EXCEPT !.Name = info.Alias, !.Model = info.Model, !.On = int2bool(info.RelayState)]

\* a faulty variant of AfterQuery: the range goes on after an error
AfterQueryContinue(failed) == "init"

\* getSystemInfo after a query: return on an error, else the next plug of the range
AfterQuery(failed) == IF failed THEN "poll" ELSE "init"

\* getSystemInfo: on an error it prints it and returns (main gets no value and goes on
\* to its key loop); otherwise it stores Name, Model and On and takes the next plug
getSystemInfo_Result ==
    /\ mainpc = "init"
    /\ thr[Main].pc = "ret"
    /\ LET failed == thr[Main].err # "nil"
           entry  == [dev |-> idx, done |-> TRUE, ok |-> ~failed, info |-> thr[Main].resp]
       IN  /\ queryLog' = [queryLog EXCEPT ![Len(queryLog)] = entry]
           /\ plugs' = IF failed THEN plugs
                       ELSE [plugs EXCEPT ![idx] = Populated(@, thr[Main].resp)]
           /\ mainpc' = AfterQuery(failed)
           /\ initReturn' = IF mainpc' = "poll" THEN "void" ELSE initReturn
           /\ idx' = idx + 1
    /\ thr' = [thr EXCEPT ![Main] = IdleThread]
    /\ UNCHANGED <<codecVars, parseVars, event, nevents, toggled, firstErr, wire, ncalls>>

\* getSystemInfo: the range is over, it returns
getSystemInfo_End ==
    /\ mainpc = "init"
    /\ idx > Len(plugs)
    /\ mainpc' = "poll"
    /\ initReturn' = "void"
    /\ UNCHANGED <<codecVars, parseVars, plugs, thr, idx, event, nevents, queryLog,
                   toggled, firstErr, wire, ncalls>>

\* a faulty variant of main_PollEvent: Ctrl-C is handled like any other key
main_PollEventNoReturn ==
    /\ mainpc = "poll"
    /\ nevents < MaxEvents
    /\ \E ev \in Events :
          /\ event' = ev
          /\ mainpc' = IF ev.Type # "EventKey" THEN "poll" ELSE "dispatch"
    /\ nevents' = nevents + 1
    /\ idx' = 1
    /\ toggled' = << >>
    /\ UNCHANGED <<codecVars, parseVars, plugs, thr, queryLog, initReturn, firstErr, wire, ncalls>>

\* main: event := term.PollEvent(); an event that is no key event is skipped, Ctrl-C
\* returns from main, any other key starts the range over plugs
main_PollEvent ==
    /\ mainpc = "poll"
    /\ nevents < MaxEvents
    /\ \E ev \in Events :
          /\ event' = ev
          /\ mainpc' = IF ev.Type # "EventKey" THEN "poll"
                       ELSE IF ev.Key = KeyCtrlC THEN "done" ELSE "dispatch"
    /\ nevents' = nevents + 1
    /\ idx' = 1
    /\ toggled' = << >>
    /\ UNCHANGED <<codecVars, parseVars, plugs, thr, queryLog, initReturn, firstErr, wire, ncalls>>

\* the test of the range over plugs: term.Key(plug.TriggerKey) == event.Key
KeyMatches(p, ev) == TermKey(p.TriggerKey) = ev.Key

\* main: a plug whose key does not match is passed over
main_Skip ==
    /\ mainpc = "dispatch"
    /\ idx <= Len(plugs)
    /\ thr[Main].pc = "idle"
    /\ ~KeyMatches(plugs[idx], event)
    /\ idx' = idx + 1
    /\ UNCHANGED <<codecVars, parseVars, plugs, thr, mainpc, event, nevents, queryLog,
                   toggled, initReturn, firstErr, wire, ncalls>>

\* main: err := plug.toggle() on a plug whose key matches
main_Toggle ==
    /\ mainpc = "dispatch"
    /\ idx <= Len(plugs)
    /\ thr[Main].pc = "idle"
    /\ KeyMatches(plugs[idx], event)
    /\ thr' = [thr EXCEPT ![Main] = StartCall("toggle", idx)]
    /\ toggled' = Append(toggled, idx)
    /\ UNCHANGED <<codecVars, parseVars, plugs, mainpc, idx, event, nevents, queryLog,
                   initReturn, firstErr, wire, ncalls>>

\* a faulty variant of AfterToggle: an error of toggle ends the key loop
AfterToggleStop(err) == IF err # "nil" THEN "done" ELSE "dispatch"

\* where main is after plug.toggle() returned err: with an error it prints it and
\* continues the range over plugs, without one it falls through to the next plug
AfterToggle(err) == IF err # "nil" THEN "dispatch" ELSE "dispatch"

\* main: toggle returned; an error is printed and the range goes on
main_ToggleResult ==
    /\ mainpc = "dispatch"
    /\ thr[Main].pc = "ret"
    /\ thr' = [thr EXCEPT ![Main] = IdleThread]
    /\ mainpc' = AfterToggle(thr[Main].err)
    /\ idx' = idx + 1
    /\ firstErr' = IF thr[Main].err # "nil" /\ firstErr = NoErr
                   THEN [event |-> nevents, dev |-> idx] ELSE firstErr
    /\ UNCHANGED <<codecVars, parseVars, plugs, event, nevents, queryLog,
                   toggled, initReturn, wire, ncalls>>

\* main: the range over plugs is over, back to term.PollEvent
main_RangeEnd ==
    /\ mainpc = "dispatch"
    /\ idx > Len(plugs)
    /\ mainpc' = "poll"
    /\ UNCHANGED <<codecVars, parseVars, plugs, thr, idx, event, nevents, queryLog,
                   toggled, initReturn, firstErr, wire, ncalls>>

getSystemInfo == getSystemInfo_Call \/ getSystemInfo_Result \/ getSystemInfo_End

main == main_PollEvent \/ main_Skip \/ main_Toggle \/ main_ToggleResult \/ main_RangeEnd

Next ==
    \/ ProcessMapping
    \/ getSystemInfo
    \/ main
    \/ systemInfo(Main)
    \/ toggle(Main)
    \/ Tick

Spec == Init /\ [][Next]_vars

----------------------------------------------------------------------------
(* SpecConc: the plug methods called from several goroutines *)

Callers == 1..NumCallers

Methods == {"systemInfo", "turnOn", "turnOff", "toggle"}

\* "a:1": one plug, which every goroutine calls
ConcMapping == <<"a", ":", "1">>

\* the plugs after processMapping, each with the On a start-up query may have stored
InitConc ==
    /\ mapping = ConcMapping
    /\ parsed = processMapping(ConcMapping)
    /\ \E on \in [1..Len(parsed.plugs) -> BOOLEAN] :
          plugs = [d \in 1..Len(parsed.plugs) |-> [parsed.plugs[d] EXCEPT !.On = on[d]]]
    /\ plain = << >>
    /\ cipher = << >>
    /\ decoded = << >>
    /\ cpc = "unused"
    /\ inputs = << >>
    /\ outputs = << >>
    /\ thr = [t \in Callers |-> IdleThread]
    /\ mainpc = "concurrent"
    /\ idx = 0
    /\ event = NoEvent
    /\ nevents = 0
    /\ queryLog = << >>
    /\ toggled = << >>
    /\ initReturn = "pending"
    /\ firstErr = NoErr
    /\ wire = [d \in 1..Len(parsed.plugs) |-> NoWrite]
    /\ ncalls = 0

\* a goroutine calls a method of a plug
Call(t) ==
    /\ thr[t].pc = "idle"
    /\ ncalls < MaxCalls
    /\ \E op \in Methods, d \in 1..Len(plugs) : thr' = [thr EXCEPT ![t] = StartCall(op, d)]
    /\ ncalls' = ncalls + 1
    /\ UNCHANGED <<codecVars, parseVars, plugs, mainVars, wire>>

\* the method returned to its caller
Return(t) ==
    /\ thr[t].pc = "ret"
    /\ thr' = [thr EXCEPT ![t] = IdleThread]
    /\ UNCHANGED <<codecVars, parseVars, plugs, mainVars, wire, ncalls>>

NextConc ==
    \/ \E t \in Callers : Call(t) \/ Return(t) \/ systemInfo(t) \/ toggle(t) \/ turn_Return(t)
    \/ Tick

SpecConc == InitConc /\ [][NextConc]_vars

\* what the scheduling gives a goroutine inside sendCmd: it runs when it can (a free
\* mutex is taken, Dial, SetDeadline, Write and Read return within their deadline,
\* the deferred calls run), and time passes, so a sleep ends
SendCmdFairness == (\A t \in Callers : WF_vars(sendCmd(t))) /\ WF_vars(Tick)

\* SpecConc with the goroutines scheduled
SpecConcFair == InitConc /\ [][NextConc]_vars /\ SendCmdFairness

----------------------------------------------------------------------------
(* SpecLockFair: sendCmd called from several goroutines through turnOn and  *)
(* turnOff, which do nothing but call it, with the goroutines scheduled     *)

\* the plugs of SpecConc
ConcPlugs == 1..Len(processMapping(ConcMapping).plugs)

\* a goroutine calls turnOn or turnOff of a plug
CallTurn(t) ==
    /\ thr[t].pc = "idle"
    /\ ncalls < MaxCalls
    /\ \E op \in {"turnOn", "turnOff"}, d \in 1..Len(plugs) :
          thr' = [thr EXCEPT ![t] = StartCall(op, d)]
    /\ ncalls' = ncalls + 1
    /\ UNCHANGED <<codecVars, parseVars, plugs, mainVars, wire>>

NextLock ==
    \/ \E t \in Callers : CallTurn(t) \/ Return(t) \/ sendCmd(t) \/ turn_Return(t)
    \/ Tick

SpecLockFair == InitConc /\ [][NextLock]_vars /\ SendCmdFairness

----------------------------------------------------------------------------
(* The claims about the codec, under SpecCodec *)

\* C1: for every byte sequence P, the empty one included, decrypt(encrypt(P)) = P.
C1_RoundTrip == cpc = "decrypted" => decoded = plain

C1_Witness == cpc = "decrypted" /\ Len(plain) = MaxLen /\ decoded = plain /\ cipher # plain

\* the key that encrypts the i-th plaintext byte: 171, then the ciphertext byte before
KeyAt(c, i) == IF i = 1 THEN 171 ELSE c[4 + i - 1]

\* C10: encrypt returns 4 + n bytes, the first four are n as a big-endian 32-bit
\* integer, byte 4+i is plaintext[i] XOR k_i with k_0 = 171 and k_(i+1) the
\* ciphertext byte just produced, and the empty plaintext gives four zero bytes.
C10_EncryptFormat ==
    cpc # "start" =>
        /\ Len(cipher) = 4 + Len(plain)
        /\ \A j \in 1..4 : cipher[j] \in 0..255
        /\ cipher[1] * 16777216 + cipher[2] * 65536 + cipher[3] * 256 + cipher[4] = Len(plain)
        /\ \A i \in 1..Len(plain) : cipher[4 + i] = Xor(plain[i], KeyAt(cipher, i))
        /\ (plain = << >> => cipher = <<0, 0, 0, 0>>)

C10_Witness == cpc = "encrypted" /\ Len(plain) > 256 /\ cipher[3] = 1 /\ plain[1] = 123

----------------------------------------------------------------------------
(* The claims about processMapping, under SpecParse *)

\* the positions of the commas of m, and where its comma-separated entries start
CommaAt(m) == {i \in 1..Len(m) : m[i] = ","}

EntryStarts(m) == {1} \cup {i + 1 : i \in CommaAt(m)}

\* the entry of m that starts at position s
EntryFrom(m, s) ==
    LET later == {j \in CommaAt(m) : j >= s}
        last  == IF later = {} THEN Len(m) ELSE (CHOOSE j \in later : \A k \in later : j <= k) - 1
    IN  SubSeq(m, s, last)

\* the k-th comma-separated entry of m
EntryNo(m, k) ==
    EntryFrom(m, CHOOSE s \in EntryStarts(m) : Cardinality({i \in CommaAt(m) : i < s}) = k - 1)

NumEntries(m) == Cardinality(CommaAt(m)) + 1

ColonAt(e) == {i \in 1..Len(e) : e[i] = ":"}

AddressOf(e) == SubSeq(e, 1, (CHOOSE i \in ColonAt(e) : TRUE) - 1)

KeyTextOf(e) == SubSeq(e, (CHOOSE i \in ColonAt(e) : TRUE) + 1, Len(e))

Unsigned(k) == IF Len(k) > 0 /\ k[1] \in {"-", "+"} THEN SubSeq(k, 2, Len(k)) ELSE k

\* k is the text of an integer: an optional sign and at least one digit
IsIntegerText(k) == Len(Unsigned(k)) >= 1 /\ \A i \in 1..Len(Unsigned(k)) : IsDigit(Unsigned(k)[i])

RECURSIVE Pow10(_)
Pow10(n) == IF n = 0 THEN 1 ELSE 10 * Pow10(n - 1)

RECURSIVE PlaceSum(_, _)
\* the sum of digit * 10^place over the digits from position i on
PlaceSum(u, i) ==
    IF i > Len(u) THEN 0 ELSE DigitVal(u[i]) * Pow10(Len(u) - i) + PlaceSum(u, i + 1)

\* the integer an integer text denotes
IntegerOf(k) == IF k[1] = "-" THEN 0 - PlaceSum(Unsigned(k), 1) ELSE PlaceSum(Unsigned(k), 1)

\* an entry is well formed when it has exactly one ':' and an integer after it
EntryWellFormed(e) == Cardinality(ColonAt(e)) = 1 /\ IsIntegerText(KeyTextOf(e))

WellFormed(m) == \A k \in 1..NumEntries(m) : EntryWellFormed(EntryNo(m, k))

\* C5: a mapping with at least one malformed entry (no ':', more than one ':', or a
\* trigger key that is no integer) yields a configuration error and no device list.
C5_MalformedRejected ==
    (parsed.status # "none" /\ ~WellFormed(mapping)) => (parsed.status = "panic" /\ plugs = << >>)

\* C6: a well-formed mapping of n pairs yields n devices in the order of the pairs,
\* the i-th with the i-th address and integer trigger key, name and model empty
\* and on = false.
C6_WellFormedParsed ==
    (parsed.status # "none" /\ WellFormed(mapping)) =>
        /\ parsed.status = "ok"
        /\ Len(parsed.plugs) = NumEntries(mapping)
        /\ \A i \in 1..NumEntries(mapping) :
              /\ parsed.plugs[i].IPAddress = AddressOf(EntryNo(mapping, i))
              /\ parsed.plugs[i].TriggerKey = IntegerOf(KeyTextOf(EntryNo(mapping, i)))
              /\ parsed.plugs[i].Name = ""
              /\ parsed.plugs[i].Model = ""
              /\ parsed.plugs[i].On = FALSE

C6_Witness ==
    /\ parsed.status = "ok"
    /\ WellFormed(mapping)
    /\ Len(parsed.plugs) = 2
    /\ parsed.plugs[1].TriggerKey = 1
    /\ parsed.plugs[2].TriggerKey = 2
    /\ parsed.plugs[1].IPAddress = <<"a">>
    /\ parsed.plugs[2].IPAddress = <<"a">>

----------------------------------------------------------------------------
(* The claims about concurrent callers, under SpecConc *)

\* from the dial to the end of the read of the response
InFlight == {"dial", "deadline", "write", "read"}

CallersInFlight(d) == {t \in DOMAIN thr : thr[t].dev = d /\ thr[t].pc \in InFlight}

\* C2: however many callers run command-issuing methods on one device, at most one of
\* them is between the dial and the end of the read of the response, and it is the
\* one that holds the lock of the device.
C2_OneCommandInFlight ==
    \A d \in DOMAIN plugs :
        /\ Cardinality(CallersInFlight(d)) <= 1
        /\ \A t \in CallersInFlight(d) : plugs[d].mtx = t

C2_Witness ==
    \E t, u \in DOMAIN thr :
        /\ t # u
        /\ thr[t].dev = thr[u].dev
        /\ thr[t].pc = "write"
        /\ thr[u].pc = "lock"
        /\ thr[t].op = "toggle"
        /\ thr[u].op = "toggle"

\* C3: of two consecutive commands written to one device, in any sequence or
\* interleaving of calls and whether or not the earlier one failed, the later is
\* written at least 500 ms after the earlier.
C3_WritesHalfSecondApart == \A d \in DOMAIN wire : wire[d].gap >= 500

\* the command of u was written 500 ms after the one of t, which failed at its read
C3_Witness ==
    \E t, u \in DOMAIN thr :
        /\ t # u
        /\ thr[t].dev = thr[u].dev
        /\ thr[t].pc = "ret"
        /\ thr[t].err = "read"
        /\ thr[u].pc = "read"
        /\ wire[thr[u].dev].gap = 500

\* where a caller is when it is not between the dial and the deferred conn.Close()
OutsideExchange == {"idle", "toggle", "lock", "check", "sleep", "dial", "unlock", "sent", "ret"}

\* C11: every connection a command exchange opened is closed before the exchange
\* returns, on every exit path (SetDeadline, write or read failed, or success): a
\* caller outside the exchange has no open connection, and no connection to a device
\* is open while no command to it is in progress (its lock is free).
C11_ConnClosedOnReturn ==
    /\ \A t \in DOMAIN thr : thr[t].pc \in OutsideExchange => thr[t].conn # "open"
    /\ \A t \in DOMAIN thr : thr[t].pc \in {"unlock", "sent", "ret"} /\ thr[t].err # "dial" =>
            thr[t].conn = "closed"
    /\ \A d \in DOMAIN plugs :
            plugs[d].mtx = 0 => \A t \in DOMAIN thr : thr[t].dev = d => thr[t].conn # "open"

\* one caller returned after SetDeadline failed, another after a command without error
C11_Witness ==
    \E t, u \in DOMAIN thr :
        /\ thr[t].pc = "ret" /\ thr[t].err = "deadline" /\ thr[t].conn = "closed"
        /\ thr[u].pc = "ret" /\ thr[u].err = "nil" /\ thr[u].conn = "closed"
        /\ plugs[thr[t].dev].mtx = 0

----------------------------------------------------------------------------
(* The claims about the program, under Spec *)

\* C4: toggle on a device whose cached on is false issues the turn-on command and
\* leaves on = true, on a device whose cached on is true it issues the turn-off
\* command and leaves on = false, whether the command succeeded or returned an error.
C4_ToggleFlips ==
    \A t \in DOMAIN thr :
        thr[t].op = "toggle" =>
            /\ thr[t].pc # "toggle" =>
                  thr[t].payload = IF thr[t].onAtCall THEN TurnOffPayload ELSE TurnOnPayload
            /\ thr[t].pc = "ret" => plugs[thr[t].dev].On = ~thr[t].onAtCall

C4_Witness ==
    \E t \in DOMAIN thr :
        /\ thr[t].op = "toggle"
        /\ thr[t].pc = "ret"
        /\ thr[t].err = "write"
        /\ ~thr[t].onAtCall
        /\ plugs[thr[t].dev].On

\* the queries of getSystemInfo that ended in an error
FailedQueries == {k \in 1..Len(queryLog) : queryLog[k].done /\ ~queryLog[k].ok}

\* C7: getSystemInfo queries the devices one at a time in list order; if the query of
\* device k fails, no device after k is ever queried, device k and every later device
\* keep name and model empty and on as created, and the devices before k keep the
\* values their queries returned. (on is compared until the key loop, which toggles
\* it, has polled its first event.)
C7_InitFailFast ==
    /\ \A j \in 1..Len(queryLog) : queryLog[j].dev = j
    /\ \A j \in 1..Len(queryLog) : ~queryLog[j].done => j = Len(queryLog)
    /\ \A k \in FailedQueries :
          /\ Len(queryLog) = k
          /\ \A j \in k..Len(plugs) :
                /\ plugs[j].Name = ""
                /\ plugs[j].Model = ""
                /\ nevents = 0 => plugs[j].On = FALSE
          /\ \A j \in 1..(k - 1) :
                /\ queryLog[j].ok
                /\ plugs[j].Name = queryLog[j].info.Alias
                /\ plugs[j].Model = queryLog[j].info.Model
                /\ nevents = 0 => plugs[j].On = (queryLog[j].info.RelayState = 1)

C7_Witness ==
    /\ Len(plugs) = 3
    /\ 2 \in FailedQueries
    /\ mainpc = "done"
    /\ nevents = MaxEvents
    /\ plugs[1].Name = "lamp"
    /\ queryLog[1].info.RelayState = 1

\* C8: when the query of a device fails during initialization, the caller of the
\* initialization receives an outcome that differs from the one of a successful
\* initialization ("void", what getSystemInfo hands back when every query succeeded).
C8_InitReportsFailure ==
    (initReturn # "pending" /\ FailedQueries # {}) => initReturn # "void"

\* the plugs among the first n whose trigger key is the key of the event, in list order
ExactMatches(n) ==
    SelectSeq([j \in 1..n |-> j], LAMBDA j : plugs[j].TriggerKey = event.Key)

\* the plugs the range of the key loop has reached
Reached == IF thr[Main].pc = "idle" THEN idx - 1 ELSE idx

\* C9: for a key event that is not the termination key, toggle is invoked exactly
\* once on each device whose trigger key equals the key of the event, in list order,
\* and on no other device; an event that is no key event, or whose key matches no
\* device, causes no toggle.
C9_DispatchExactMatch ==
    /\ mainpc = "dispatch" => toggled = ExactMatches(Reached)
    /\ (mainpc = "poll" /\ nevents > 0 /\ event.Type = "EventKey") =>
          toggled = ExactMatches(Len(plugs))
    /\ (mainpc = "poll" /\ nevents > 0 /\ event.Type # "EventKey") => toggled = << >>

\* What the key loop does: the same with the trigger key converted to term.Key.
DispatchTermKeyMatch ==
    LET matches(n) == SelectSeq([j \in 1..n |-> j], LAMBDA j : KeyMatches(plugs[j], event))
    IN  /\ mainpc = "dispatch" => toggled = matches(Reached)
        /\ (mainpc = "poll" /\ nevents > 0 /\ event.Type = "EventKey") =>
              toggled = matches(Len(plugs))
        /\ (mainpc = "poll" /\ nevents > 0 /\ event.Type # "EventKey") => toggled = << >>

\* the callers that take the step
Stepping == {t \in DOMAIN thr : thr'[t] # thr[t]}

\* the step stores a value in p.On, or the present time in p.lastCmd, of plug d
WritesOn(d) == plugs'[d].On # plugs[d].On

WritesLastCmd(d) == plugs'[d].lastCmd # plugs[d].lastCmd /\ plugs'[d].lastCmd = Now

\* C12: every write to a device's cached on field and to its lastCmd field occurs
\* while the writer holds the lock of that device.
C12_FieldWritesUnderLock ==
    [][\A d \in DOMAIN plugs :
          (WritesOn(d) \/ WritesLastCmd(d)) => \E t \in Stepping : plugs[d].mtx = t]_vars

\* the plugs toggle was invoked on for the current event
ToggledSet == {toggled[i] : i \in 1..Len(toggled)}

\* C13: when a toggle invoked by the dispatcher returns an error, the dispatcher does
\* not stop: it still toggles the remaining devices matching the same event (every
\* device the range has passed whose trigger key is the key of the event was toggled)
\* and goes on to the next event (main is in its range or back at PollEvent, and has
\* returned only for a later Ctrl-C).
C13_DispatchContinuesAfterError ==
    firstErr # NoErr =>
        /\ mainpc \in {"dispatch", "poll", "done"}
        /\ mainpc = "done" =>
              (event.Type = "EventKey" /\ event.Key = KeyCtrlC /\ nevents > firstErr.event)
        /\ mainpc = "dispatch" =>
              \A j \in 1..Reached : plugs[j].TriggerKey = event.Key => j \in ToggledSet
        /\ (mainpc = "poll" /\ event.Type = "EventKey") =>
              \A j \in 1..Len(plugs) : plugs[j].TriggerKey = event.Key => j \in ToggledSet

\* the toggle of the first plug failed, the third plug was toggled for the same event
\* and main is back at PollEvent, which it can take
C13_Witness ==
    /\ firstErr = [event |-> 1, dev |-> 1]
    /\ nevents = 1
    /\ mainpc = "poll"
    /\ toggled = <<1, 2, 3>>
    /\ plugs[3].TriggerKey = event.Key
    /\ ENABLED main_PollEvent

\* the network calls of an invocation that made all of them
Exchange == <<"dial", "write", "read">>

\* C14: each command invocation performs at most one dial, then at most one write,
\* then at most one read, in that order; it stops at the first of them that fails
\* and returns an error (after a dial failure nothing is written, after a write
\* failure nothing is read), and a failed command is not sent again: no plug is
\* toggled twice for one event or queried twice by getSystemInfo.
C14_OneAttemptInOrder ==
    /\ \A t \in DOMAIN thr :
          LET n == thr[t].net
          IN  /\ Len(n) <= Len(Exchange)
              /\ \A i \in 1..Len(n) : n[i].op = Exchange[i]
              /\ \A i \in 1..Len(n) :
                    ~n[i].ok => /\ i = Len(n)
                                /\ thr[t].err = n[i].op
                                /\ thr[t].pc \in {"close", "unlock", "sent", "ret"}
              /\ thr[t].pc \in {"sent", "ret"} =>
                    \/ thr[t].err \in {"nil", "json"} /\ Len(n) = Len(Exchange) /\ n[Len(n)].ok
                    \/ thr[t].err = "deadline" /\ Len(n) = 1 /\ n[1].ok
                    \/ thr[t].err \in {"dial", "write", "read"} /\ ~n[Len(n)].ok
    /\ \A i, j \in 1..Len(toggled) : toggled[i] = toggled[j] => i = j
    /\ \A i, j \in 1..Len(queryLog) : queryLog[i].dev = queryLog[j].dev => i = j

\* a toggle whose write failed: it dialled and wrote once, read nothing, and returned
\* the error to the key loop
C14_Witness ==
    /\ thr[Main].op = "toggle"
    /\ thr[Main].pc = "ret"
    /\ thr[Main].net = <<[op |-> "dial", ok |-> TRUE], [op |-> "write", ok |-> FALSE]>>
    /\ thr[Main].err = "write"
    /\ mainpc = "dispatch"

\* C15: a command issued e milliseconds after the device's lastCmd with e < 500 makes
\* the caller sleep, holding the device lock, for the remaining 500 - e milliseconds
\* before it sends; with e >= 500 it does not sleep.
C15_SleepsRemainder ==
    [][\A t \in DOMAIN thr :
          (thr[t].pc = "check" /\ thr'[t].pc # "check") =>
              LET d == thr[t].dev
                  e == Since(plugs[d].lastCmd)
              IN  IF e < 500
                  THEN /\ thr'[t].pc = "sleep"
                       /\ thr'[t].wake = Now + (500 - e)
                       /\ plugs'[d].mtx = t
                  ELSE thr'[t].pc = "dial"]_vars

\* What the guard does: below 500 ms it sleeps 500 ms, whatever e is.
GuardSleepsFullInterval ==
    [][\A t \in DOMAIN thr :
          (thr[t].pc = "check" /\ thr'[t].pc # "check") =>
              LET d == thr[t].dev
                  e == Since(plugs[d].lastCmd)
              IN  IF e < 500
                  THEN /\ thr'[t].pc = "sleep"
                       /\ thr'[t].wake = Now + 500
                       /\ plugs'[d].mtx = t
                  ELSE thr'[t].pc = "dial"]_vars

\* the step is the deferred function of sendCmd run by caller t: it releases the lock
\* of plug d
Releases(t, d) == plugs[d].mtx = t /\ plugs'[d].mtx = 0

\* the step is the passing of time: every kept time moves TickMs into the past and
\* no caller moves
TimePasses ==
    /\ \A d \in DOMAIN plugs : plugs'[d].lastCmd = Aged(plugs[d].lastCmd)
    /\ \A t \in DOMAIN thr : thr'[t].pc = thr[t].pc

\* C16: every command invocation, whether it succeeds or fails at dial, write or
\* read, sets the device's lastCmd to the time at which it releases the lock, and
\* lastCmd is changed by nothing else (between releases it only ages as time passes).
C16_LastCmdSetAtRelease ==
    [][\A d \in DOMAIN plugs :
          /\ \A t \in DOMAIN thr : Releases(t, d) => plugs'[d].lastCmd = Now
          /\ \A t \in DOMAIN thr :
                (thr[t].dev = d /\ thr[t].pc \in {"lock", "check", "sleep", "dial", "deadline",
                                                 "write", "read", "close", "unlock"}
                   /\ thr'[t].pc \in {"sent", "ret", "idle"}) => Releases(t, d)
          /\ plugs'[d].lastCmd # plugs[d].lastCmd =>
                \/ \E t \in Stepping : Releases(t, d) /\ thr[t].pc = "unlock"
                \/ TimePasses]_vars

\* a command that failed at its dial has just released the lock: lastCmd is now
C16_Witness ==
    \E t \in DOMAIN thr :
        /\ thr[t].pc = "sent"
        /\ thr[t].err = "dial"
        /\ plugs[thr[t].dev].mtx = 0
        /\ plugs[thr[t].dev].lastCmd = Now

\* the termination key event
IsCtrlC(ev) == ev.Type = "EventKey" /\ ev.Key = KeyCtrlC

\* C17: when the dispatcher receives the termination key event it stops the loop: no
\* toggle is invoked for that event, even if a device's trigger key equals the
\* termination key, nor for any later event (no later event is polled).
C17_CtrlCStopsLoop ==
    [][/\ IsCtrlC(event') =>
             (mainpc' = "done" /\ toggled' = << >> /\ thr'[Main].pc = "idle")
       /\ IsCtrlC(event) =>
             (event' = event /\ nevents' = nevents /\ mainpc' = mainpc /\ thr' = thr)]_vars

\* Ctrl-C arrived as the first event, with a plug whose trigger key is Ctrl-C's
C17_Witness ==
    /\ mainpc = "done"
    /\ IsCtrlC(event)
    /\ nevents = 1
    /\ nevents < MaxEvents
    /\ \E j \in 1..Len(plugs) : plugs[j].TriggerKey = KeyCtrlC /\ KeyMatches(plugs[j], event)
    /\ toggled = << >>
    /\ thr[Main].pc = "idle"

\* caller t made the only call so far, and it has returned
OnlyCallReturned(t) ==
    /\ ncalls = 1
    /\ thr[t].pc = "ret"
    /\ \A u \in DOMAIN thr : u # t => thr[u].pc = "idle"

\* C18: a turnOn call that completes without a transport error leaves the device's
\* cached on = true, and a turnOff call that completes without a transport error
\* leaves it on = false.
C18_TurnSetsOn ==
    \A t \in DOMAIN thr :
        (OnlyCallReturned(t) /\ thr[t].err = "nil") =>
            /\ thr[t].op = "turnOn" => plugs[thr[t].dev].On = TRUE
            /\ thr[t].op = "turnOff" => plugs[thr[t].dev].On = FALSE

----------------------------------------------------------------------------
(* The claim about decrypt's prefix, under SpecDecrypt *)

\* the bytes of bx from Go's index 4 on
FromIndex4(bx) == SubSeq(bx, 5, Len(bx))

\* C19: decrypt never reads or validates the first 4 bytes of its input: any two
\* inputs that agree from byte index 4 onward decode to the same plaintext, and any
\* input shorter than 4 bytes decodes to the empty sequence without an error.
C19_PrefixIgnored ==
    cpc = "decrypted" =>
        /\ FromIndex4(inputs[1]) = FromIndex4(inputs[2]) => outputs[1] = outputs[2]
        /\ \A k \in 1..2 : Len(inputs[k]) < 4 => outputs[k] = << >>
        /\ \A k \in 1..2 : Len(inputs[k]) >= 4 => Len(outputs[k]) = Len(inputs[k]) - 4

\* two inputs that differ in each of the first four bytes and share a tail of MaxLen
\* bytes
C19_Witness ==
    /\ cpc = "decrypted"
    /\ Len(inputs[1]) = 4 + MaxLen
    /\ \A i \in 1..4 : inputs[1][i] # inputs[2][i]
    /\ FromIndex4(inputs[1]) = FromIndex4(inputs[2])
    /\ outputs[1] = outputs[2]
    /\ Len(outputs[1]) = MaxLen

----------------------------------------------------------------------------
(* The claim about two concurrent toggles, under SpecConc *)

\* t and u are two toggle calls on one device that ran concurrently and have both
\* returned: each was called before the other stored p.On, so both were called with
\* the same cached on, the value before the two calls
ConcurrentToggles(t, u) ==
    /\ t # u
    /\ ncalls = 2
    /\ thr[t].op = "toggle" /\ thr[u].op = "toggle"
    /\ thr[t].pc = "ret" /\ thr[u].pc = "ret"
    /\ thr[t].dev = thr[u].dev
    /\ thr[t].onAtCall = thr[u].onAtCall

\* C20: when two toggle calls run concurrently on the same device, the device lock
\* makes them safe: they issue opposite commands (one turn-on and one turn-off) and
\* the cached on ends equal to its value before the two calls, as if the two toggles
\* had run one after the other.
C20_ConcurrentTogglesSafe ==
    \A t, u \in DOMAIN thr :
        ConcurrentToggles(t, u) =>
            /\ {thr[t].payload, thr[u].payload} = {TurnOnPayload, TurnOffPayload}
            /\ plugs[thr[t].dev].On = thr[t].onAtCall

----------------------------------------------------------------------------
(* The claim about the release of the lock, under SpecLockFair *)

\* caller t holds the lock of the plug it calls
Holds(t) == thr[t].dev \in DOMAIN plugs /\ plugs[thr[t].dev].mtx = t

\* caller t waits in p.mtx.Lock()
WaitsForLock(t) == thr[t].pc = "lock"

\* C21: every command invocation that acquires a device's lock eventually releases
\* it, on every exit path including dial, write and read failures (the network steps
\* returning within their deadline), so a failed command never prevents a later
\* command to the same device from acquiring the lock: no caller that has left
\* sendCmd holds a lock, the lock of a device is free again and again (only its
\* holder frees it, so every holder releases), and no caller waits for it for ever.
C21_LockReleased ==
    /\ [](\A t \in Callers : thr[t].pc \in {"idle", "toggle", "lock", "sent", "ret"} => ~Holds(t))
    /\ \A d \in ConcPlugs : []<>(plugs[d].mtx = 0)
    /\ \A t \in Callers : []<>(~WaitsForLock(t))

\* a command failed at its write and released the lock; the caller that waited
\* behind it has the lock and is about to dial
C21_Witness ==
    \E t, u \in Callers :
        /\ t # u
        /\ thr[t].dev = thr[u].dev
        /\ thr[t].pc \in {"sent", "ret"}
        /\ thr[t].err = "write"
        /\ thr[u].pc = "dial"
        /\ Holds(u)
        /\ ~Holds(t)

=============================================================================
